---- MODULE Spec2Model ----
(***************************************************************************)
(* Model of src/main.py: the POST /generate handler generate_notes, the    *)
(* process-wide agent whose memory the handler reads, and the image-search *)
(* tool GoogleImageSearchTools.search_images.                              *)
(***************************************************************************)
EXTENDS Integers, Sequences, FiniteSets, TLC

VARIABLES
    pc,          \* pc[r]: "idle", "awaiting" (suspended in `await request.json()`), "done"
    body,        \* body[r]: the raw request body of request r
    response,    \* response[r]: the HTTP response sent for request r
    trace,       \* trace[r]: what the handler of r did, in order: prints, agent.run, respond
    outcome,     \* outcome[r]: what agent.run did for r (NotRun when it was not called)
    seen,        \* seen[r]: agent.memory.messages as the handler of r read it
    memory,      \* agent.memory.messages of the module-level agent
    getCalls,    \* number of requests.get calls issued by search_images so far
    search       \* the last search_images call: its query, params, API response, outcome

gatewayVars == <<pc, body, response, trace, outcome, seen, memory>>
searchVars == <<getCalls, search>>
vars == <<pc, body, response, trace, outcome, seen, memory, getCalls, search>>

(***************************************************************************)
(* Bounds                                                                  *)
(***************************************************************************)
MaxRequests == 2
MaxItems == 3
MaxCalls == 3

Requests == 1..MaxRequests

(***************************************************************************)
(* Python values and exceptions                                            *)
(***************************************************************************)
None == [t |-> "NoneType"]
PyStr(s) == [t |-> "str", v |-> s]
PyList == [t |-> "list"]
PyDict(items) == [t |-> "dict", items |-> items]

\* Truthy with a fault: only None is falsy, the empty string passes
TruthyNoneOnly(v) == v.t # "NoneType"

\* bool(v), as `if not content` evaluates it
Truthy(v) ==
    CASE v.t = "NoneType" -> FALSE
      [] v.t = "str" -> v.v # ""
      [] OTHER -> TRUE

PyException(msg) == [cls |-> "Exception", msg |-> msg]
HTTPException(status_code, detail) ==
    [cls |-> "HTTPException", status_code |-> status_code, detail |-> detail]

\* str(e): the message of a plain exception; starlette's HTTPException
\* renders as "<status_code>: <detail>"
ExcStr(e) ==
    IF e.cls = "HTTPException"
    THEN ToString(e.status_code) \o ": " \o e.detail
    ELSE e.msg

IsHTTPException(e) == e.cls = "HTTPException"

(***************************************************************************)
(* Request bodies and request.json()                                       *)
(***************************************************************************)
Tasks == {"topic A", "topic B"}

Bodies ==
    {[valid |-> FALSE]}
    \cup {[valid |-> TRUE, value |-> PyList]}
    \cup {[valid |-> TRUE, value |-> PyDict(<<>>)]}
    \cup {[valid |-> TRUE, value |-> PyDict([k \in {"content"} |-> c])] :
            c \in {None, PyStr("")} \cup {PyStr(t) : t \in Tasks}}

\* await request.json(): the parsed value, or the JSON decoder's exception
RequestJson(b) ==
    IF b.valid
    THEN [raised |-> FALSE, value |-> b.value]
    ELSE [raised |-> TRUE,
          exc |-> PyException("Expecting value: line 1 column 1 (char 0)")]

\* DataGet with a fault: a non-dict is treated as an object without the key
DataGetLenient(data, key) ==
    [raised |-> FALSE,
     value |-> IF data.t = "dict" /\ key \in DOMAIN data.items
               THEN data.items[key] ELSE None]

\* data.get("content"): dict.get, or AttributeError on a non-dict
DataGet(data, key) ==
    IF data.t = "dict"
    THEN [raised |-> FALSE,
          value |-> IF key \in DOMAIN data.items THEN data.items[key] ELSE None]
    ELSE [raised |-> TRUE,
          exc |-> PyException("'" \o data.t \o "' object has no attribute 'get'")]

(***************************************************************************)
(* search_images (used by the agent as a tool)                             *)
(***************************************************************************)
\* the message of the exception search_images raises on a non-200 status
GoogleApiErrorText(status_code, text) ==
    "Google API Error: " \o ToString(status_code) \o " - " \o text

\* API_KEY_CUSTOM_SEARCH and CSE_ID, read from the environment
ApiKey == "api-key"
CseId == "cse-id"

Queries == {"binary tree", "tcp handshake", "b-tree"}
Links == {"https://img/1.png", "https://img/2.png"}

\* sequences over S of length at most n
SeqsUpTo(S, n) == UNION {[1..k -> S] : k \in 0..n}

\* an item of the API's result list
Item(link) == [link |-> link, mime |-> "image/png"]

\* what the search API may answer: an error status with a text body, or 200
\* with a JSON object that has an items list or none
ApiResponses ==
    {[status_code |-> 403, text |-> "quota exceeded", json |-> <<>>],
     [status_code |-> 500, text |-> "backend error", json |-> <<>>]}
    \cup {[status_code |-> 200, text |-> "{}", json |-> <<>>]}
    \cup {[status_code |-> 200, text |-> "{items}",
           json |-> [k \in {"items"} |-> [i \in DOMAIN ls |-> Item(ls[i])]]] :
            ls \in SeqsUpTo(Links, MaxItems)}

\* the query parameters of the GET
SearchParams(query) ==
    [q |-> query, key |-> ApiKey, cx |-> CseId, searchType |-> "image", num |-> 3]

\* [item['link'] for item in results.get('items', [])]
ImageUrls(results) ==
    LET items == IF "items" \in DOMAIN results THEN results["items"] ELSE <<>>
    IN  [i \in DOMAIN items |-> items[i].link]

\* SearchImagesOutcome with a fault: the body is parsed before the status check
SearchImagesOutcomeParseFirst(resp) ==
    IF resp.status_code # 200
    THEN [raised |-> TRUE, jsonCalls |-> 1,
          exc |-> PyException(GoogleApiErrorText(resp.status_code, resp.text))]
    ELSE [raised |-> FALSE, jsonCalls |-> 1, value |-> ImageUrls(resp.json)]

\* search_images after requests.get returned resp: the status check, then
\* response.json() and the list of links; jsonCalls counts response.json()
SearchImagesOutcome(resp) ==
    IF resp.status_code # 200
    THEN [raised |-> TRUE, jsonCalls |-> 0,
          exc |-> PyException(GoogleApiErrorText(resp.status_code, resp.text))]
    ELSE [raised |-> FALSE, jsonCalls |-> 1, value |-> ImageUrls(resp.json)]

(***************************************************************************)
(* The module-level agent                                                  *)
(***************************************************************************)
\* A message object of the agent's memory is a record whose DOMAIN is the set
\* of attributes the object has.
HasAttr(m, a) == a \in DOMAIN m

UserMsg(task) == [role |-> "user", content |-> task.v, created_at |-> 0]
AssistantMsg(html) == [role |-> "assistant", content |-> html, created_at |-> 0]
NoRoleMsg == [content |-> "tool output", created_at |-> 0]
NoContentMsg == [role |-> "tool", created_at |-> 0]

Htmls == {"<h1>A</h1>", "<p>B</p>"}

\* the transcripts one invocation may produce for a task
Transcripts(task, html) ==
    { <<>>,
      <<UserMsg(task)>>,
      <<UserMsg(task), AssistantMsg(html)>>,
      <<UserMsg(task), NoContentMsg, AssistantMsg(html)>>,
      <<NoRoleMsg, AssistantMsg(html), NoContentMsg, UserMsg(task)>> }

\* what agent.run can raise: a tool's error propagating, or an HTTP error
AgentErrors ==
    { PyException(GoogleApiErrorText(403, "quota exceeded")),
      HTTPException(429, "Too Many Requests") }

\* the outcomes of agent.run(task): it raises, or returns a RunResponse with
\* a final content after adding this run's messages to the agent's memory
RunOutcomes(task) ==
    {[raised |-> TRUE, exc |-> e] : e \in AgentErrors}
    \cup UNION {{[raised |-> FALSE, content |-> h, messages |-> t] :
                    t \in Transcripts(task, h)} : h \in Htmls}

\* agent.memory.messages after agent.run: the agent is one process-wide
\* object, and a run appends its messages to the memory it already holds
AgentRun(mem, out) ==
    IF out.raised THEN mem ELSE mem \o out.messages

(***************************************************************************)
(* generate_notes                                                          *)
(***************************************************************************)
PrintEv(text) == [ev |-> "print", text |-> text]
RunEv(task) == [ev |-> "run", task |-> task]
RespondEv(status) == [ev |-> "respond", status |-> status]

\* SerializableMessages with a fault: the pairs come out in reverse order
RECURSIVE SerializableMessagesReversed(_)
SerializableMessagesReversed(msgs) ==
    IF msgs = <<>>
    THEN <<>>
    ELSE LET msg == Head(msgs)
             rest == SerializableMessagesReversed(Tail(msgs))
         IN  IF HasAttr(msg, "role") /\ HasAttr(msg, "content")
             THEN rest \o <<[role |-> msg.role, content |-> msg.content]>>
             ELSE rest

\* the list comprehension over agent.memory.messages
RECURSIVE SerializableMessages(_)
SerializableMessages(msgs) ==
    IF msgs = <<>>
    THEN <<>>
    ELSE LET msg == Head(msgs)
             rest == SerializableMessages(Tail(msgs))
         IN  IF HasAttr(msg, "role") /\ HasAttr(msg, "content")
             THEN <<[role |-> msg.role, content |-> msg.content]>> \o rest
             ELSE rest

\* AgentTry with a fault: the detail leaves out the raised text
AgentTryNoText(content, out, mem) ==
    LET after == AgentRun(mem, out)
    IN  IF out.raised
        THEN [kind |-> "raise",
              exc |-> HTTPException(500, "An error occurred during generation"),
              trace |-> <<RunEv(content),
                          PrintEv("Error during agent execution: " \o ExcStr(out.exc))>>,
              memory |-> after, seen |-> <<>>]
        ELSE [kind |-> "return",
              value |-> [html_content |-> out.content,
                         messages |-> SerializableMessages(after)],
              trace |-> <<RunEv(content), PrintEv("")>>,
              memory |-> after, seen |-> after]

\* AgentTry with a fault: a failed agent.run is tried a second time
AgentTryRetry(content, out, mem) ==
    LET after == AgentRun(mem, out)
    IN  IF out.raised
        THEN [kind |-> "raise",
              exc |-> HTTPException(500,
                        "An error occurred during generation: " \o ExcStr(out.exc)),
              trace |-> <<RunEv(content), RunEv(content),
                          PrintEv("Error during agent execution: " \o ExcStr(out.exc))>>,
              memory |-> after, seen |-> <<>>]
        ELSE [kind |-> "return",
              value |-> [html_content |-> out.content,
                         messages |-> SerializableMessages(after)],
              trace |-> <<RunEv(content), PrintEv("")>>,
              memory |-> after, seen |-> after]

\* the inner try/except around agent.run
AgentTry(content, out, mem) ==
    LET after == AgentRun(mem, out)
    IN  IF out.raised
        THEN [kind |-> "raise",
              exc |-> HTTPException(500,
                        "An error occurred during generation: " \o ExcStr(out.exc)),
              trace |-> <<RunEv(content),
                          PrintEv("Error during agent execution: " \o ExcStr(out.exc))>>,
              memory |-> after, seen |-> <<>>]
        ELSE [kind |-> "return",
              value |-> [html_content |-> out.content,
                         messages |-> SerializableMessages(after)],
              trace |-> <<RunEv(content), PrintEv("")>>,
              memory |-> after, seen |-> after]

\* the body of the outer try
TryBody(b, out, mem) ==
    LET js == RequestJson(b)
        got == DataGet(js.value, "content")
        quiet(e) == [kind |-> "raise", exc |-> e, trace |-> <<>>,
                     memory |-> mem, seen |-> <<>>]
    IN  IF js.raised THEN quiet(js.exc)
        ELSE IF got.raised THEN quiet(got.exc)
        ELSE IF ~Truthy(got.value)
             THEN quiet(HTTPException(400, "Missing 'content' in request body"))
        ELSE AgentTry(got.value, out, mem)

\* HtmlResponse with a fault: only the html is returned
HtmlResponseHtmlOnly(value) == [html_content |-> value.html_content]

\* response_model=HtmlResponse: the fields of the model, html_content and messages
HtmlResponse(value) ==
    [html_content |-> value.html_content, messages |-> value.messages]

\* how the framework answers a raised HTTPException
ErrorResponse(e) == [status |-> e.status_code, body |-> [detail |-> e.detail]]

\* GenerateNotes with a fault: no `except HTTPException` clause, every raised
\* exception is wrapped by the generic clause
GenerateNotesWrapAll(b, out, mem) ==
    LET t == TryBody(b, out, mem)
    IN  IF t.kind = "return"
        THEN [resp |-> [status |-> 200, body |-> HtmlResponse(t.value)],
              trace |-> t.trace \o <<RespondEv(200)>>,
              memory |-> t.memory, seen |-> t.seen]
        ELSE LET e == HTTPException(500, "Failed to process request: " \o ExcStr(t.exc))
             IN  [resp |-> ErrorResponse(e),
                  trace |-> t.trace
                            \o <<PrintEv("Error processing request: " \o ExcStr(t.exc)),
                                 RespondEv(500)>>,
                  memory |-> t.memory, seen |-> t.seen]

\* GenerateNotes with a fault: the generic clause raises without printing
GenerateNotesSilent(b, out, mem) ==
    LET t == TryBody(b, out, mem)
    IN  IF t.kind = "return"
        THEN [resp |-> [status |-> 200, body |-> HtmlResponse(t.value)],
              trace |-> t.trace \o <<RespondEv(200)>>,
              memory |-> t.memory, seen |-> t.seen]
        ELSE IF IsHTTPException(t.exc)
        THEN [resp |-> ErrorResponse(t.exc),
              trace |-> t.trace \o <<RespondEv(t.exc.status_code)>>,
              memory |-> t.memory, seen |-> t.seen]
        ELSE LET e == HTTPException(500, "Failed to process request: " \o ExcStr(t.exc))
             IN  [resp |-> ErrorResponse(e),
                  trace |-> t.trace \o <<RespondEv(500)>>,
                  memory |-> t.memory, seen |-> t.seen]

\* the whole handler: the try body and the two outer except clauses
GenerateNotes(b, out, mem) ==
    LET t == TryBody(b, out, mem)
    IN  IF t.kind = "return"
        THEN [resp |-> [status |-> 200, body |-> HtmlResponse(t.value)],
              trace |-> t.trace \o <<RespondEv(200)>>,
              memory |-> t.memory, seen |-> t.seen]
        ELSE IF IsHTTPException(t.exc)
        THEN [resp |-> ErrorResponse(t.exc),
              trace |-> t.trace \o <<RespondEv(t.exc.status_code)>>,
              memory |-> t.memory, seen |-> t.seen]
        ELSE LET e == HTTPException(500, "Failed to process request: " \o ExcStr(t.exc))
             IN  [resp |-> ErrorResponse(e),
                  trace |-> t.trace
                            \o <<PrintEv("Error processing request: " \o ExcStr(t.exc)),
                                 RespondEv(500)>>,
                  memory |-> t.memory, seen |-> t.seen]

\* the task the handler would pass to agent.run, when it gets that far
TaskOf(b) ==
    LET js == RequestJson(b)
    IN  IF js.raised THEN None
        ELSE LET got == DataGet(js.value, "content")
             IN  IF got.raised THEN None ELSE got.value

\* agent.run is reached only with a truthy content; a handler that never
\* reaches it has no agent outcome to choose
NotRun == [raised |-> FALSE, content |-> "", messages |-> <<>>]
OutcomesFor(b) ==
    IF Truthy(TaskOf(b)) THEN RunOutcomes(TaskOf(b)) ELSE {NotRun}

(***************************************************************************)
(* The gateway: requests arrive, suspend reading their body, and complete  *)
(***************************************************************************)
NoResponse == [status |-> 0, body |-> [detail |-> ""]]
NoSearch == [called |-> FALSE]

Init ==
    /\ pc = [r \in Requests |-> "idle"]
    /\ body = [r \in Requests |-> [valid |-> FALSE]]
    /\ response = [r \in Requests |-> NoResponse]
    /\ trace = [r \in Requests |-> <<>>]
    /\ outcome = [r \in Requests |-> NotRun]
    /\ seen = [r \in Requests |-> <<>>]
    /\ memory = <<>>
    /\ getCalls = 0
    /\ search = NoSearch

\* a POST /generate arrives and its handler suspends in `await request.json()`
Receive(r) ==
    /\ pc[r] = "idle"
    /\ \A q \in Requests : q < r => pc[q] # "idle"
    /\ \E b \in Bodies : body' = [body EXCEPT ![r] = b]
    /\ pc' = [pc EXCEPT ![r] = "awaiting"]
    /\ UNCHANGED <<response, trace, outcome, seen, memory, getCalls, search>>

\* the body is read and the rest of the handler runs without suspending:
\* agent.run is a blocking call inside the coroutine
Handle(r) ==
    /\ pc[r] = "awaiting"
    /\ \E out \in OutcomesFor(body[r]) :
         LET h == GenerateNotes(body[r], out, memory)
         IN  /\ response' = [response EXCEPT ![r] = h.resp]
             /\ trace' = [trace EXCEPT ![r] = h.trace]
             /\ memory' = h.memory
             /\ seen' = [seen EXCEPT ![r] = h.seen]
             /\ outcome' = [outcome EXCEPT ![r] = out]
    /\ pc' = [pc EXCEPT ![r] = "done"]
    /\ UNCHANGED <<body, getCalls, search>>

Next == \E r \in Requests : Receive(r) \/ Handle(r)

\* one call of search_images: the GET and everything after it
SearchImages(query, resp) ==
    /\ getCalls < MaxCalls
    /\ getCalls' = getCalls + 1
    /\ search' = [called |-> TRUE, query |-> query, params |-> SearchParams(query),
                  resp |-> resp, out |-> SearchImagesOutcome(resp)]
    /\ UNCHANGED gatewayVars

NextSearch == \E query \in Queries, resp \in ApiResponses : SearchImages(query, resp)

SpecSearch == Init /\ [][NextSearch]_vars

Spec == Init /\ [][Next]_vars

(***************************************************************************)
(* Properties                                                              *)
(***************************************************************************)
Done(r) == pc[r] = "done"

\* the request body, read without the handler's operators
IsObject(b) == b.valid /\ b.value.t = "dict"
MissingContent(b) ==
    /\ IsObject(b)
    /\ \/ "content" \notin DOMAIN b.value.items
       \/ b.value.items["content"] = None
       \/ b.value.items["content"] = PyStr("")
PresentContent(b) == IsObject(b) /\ ~MissingContent(b)
ParseFails(b) == ~IsObject(b)

\* positions of the agent.run calls and of the non-empty log lines in a trace
RunsIn(tr) == {i \in DOMAIN tr : tr[i].ev = "run"}
LogsIn(tr) == {i \in DOMAIN tr : tr[i].ev = "print" /\ tr[i].text # ""}
RunCount(r) == Cardinality(RunsIn(trace[r]))

AgentRaised(r) == Done(r) /\ RunCount(r) > 0 /\ outcome[r].raised
AgentSucceeded(r) == Done(r) /\ RunCount(r) > 0 /\ ~outcome[r].raised

\* the text of a raised exception, written out per kind of exception
RaisedText(e) ==
    IF e.cls = "Exception"
    THEN e.msg
    ELSE ToString(e.status_code) \o ": " \o e.detail

ErrorBody(status, detail) == [status |-> status, body |-> [detail |-> detail]]

\* C1: a request whose JSON object lacks content, or has it null or empty,
\* is answered 400 with the detail "Missing 'content' in request body".
C1_MissingContentIs400 ==
    \A r \in Requests :
        Done(r) /\ MissingContent(body[r])
            => response[r] = ErrorBody(400, "Missing 'content' in request body")

C1_Witness ==
    /\ \A r \in Requests : Done(r) /\ MissingContent(body[r])
    /\ \E r \in Requests : "content" \notin DOMAIN body[r].value.items
    /\ \E r \in Requests : /\ "content" \in DOMAIN body[r].value.items
                           /\ body[r].value.items["content"] = PyStr("")

\* C2: when agent.run raises, the response is 500 and its detail is
\* "An error occurred during generation: " followed by the raised text.
C2_AgentFailureIs500 ==
    \A r \in Requests :
        AgentRaised(r)
            => response[r] = ErrorBody(500,
                   "An error occurred during generation: "
                       \o RaisedText(outcome[r].exc))

C2_Witness ==
    \E r \in Requests :
        /\ AgentRaised(r)
        /\ outcome[r].exc.cls = "Exception"
        /\ response[r].body.detail =
             "An error occurred during generation: Google API Error: 403 - quota exceeded"

\* the serialisable pairs of a transcript, stated by position: the k-th pair
\* comes from the k-th message that has both attributes
GoodAt(T) == {i \in DOMAIN T : {"role", "content"} \subseteq DOMAIN T[i]}
IsFilterOf(R, T) ==
    /\ DOMAIN R = 1..Cardinality(GoodAt(T))
    /\ \A i \in GoodAt(T) :
         LET k == Cardinality({j \in GoodAt(T) : j <= i})
         IN  R[k] = [role |-> T[i].role, content |-> T[i].content]

\* C3: the messages of a response are those of the request's own agent
\* invocation and of no other request.
C3_ResponseOwnMessagesOnly ==
    \A r \in Requests :
        AgentSucceeded(r)
            => IsFilterOf(response[r].body.messages, outcome[r].messages)

\* C4 as stated: an HTTP error raised by agent.run reaches the caller with its
\* own status code and detail.
C4_HttpErrorFromAgentUnchanged ==
    \A r \in Requests :
        AgentRaised(r) /\ outcome[r].exc.cls = "HTTPException"
            => response[r] = ErrorBody(outcome[r].exc.status_code,
                                       outcome[r].exc.detail)

\* C4 amended: the HTTP errors the handler itself raises (the 400 for missing
\* content, the 500 of the agent-failure clause) reach the caller unchanged,
\* never re-wrapped as "Failed to process request"; an HTTP error raised by
\* agent.run is wrapped by the agent-failure clause like any other exception.
C4_HandlerHttpErrorsUnchanged ==
    \A r \in Requests :
        /\ Done(r) /\ MissingContent(body[r])
             => /\ response[r].status = 400
                /\ response[r].body.detail = "Missing 'content' in request body"
        /\ AgentRaised(r)
             => /\ response[r].status = 500
                /\ response[r].body.detail =
                     "An error occurred during generation: "
                         \o RaisedText(outcome[r].exc)
        /\ AgentRaised(r) /\ outcome[r].exc.cls = "HTTPException"
             => response[r].body.detail =
                    "An error occurred during generation: "
                        \o ToString(outcome[r].exc.status_code) \o ": "
                        \o outcome[r].exc.detail

C4_Witness ==
    /\ \E r \in Requests :
         /\ AgentRaised(r)
         /\ outcome[r].exc = HTTPException(429, "Too Many Requests")
         /\ response[r] = ErrorBody(500,
              "An error occurred during generation: 429: Too Many Requests")
    /\ \E r \in Requests : Done(r) /\ response[r].status = 400

C6_MessagesFiltered ==
    \A r \in Requests :
        AgentSucceeded(r)
            => /\ response[r].status = 200
               /\ IsFilterOf(response[r].body.messages, seen[r])
               /\ \A k \in DOMAIN response[r].body.messages :
                    DOMAIN response[r].body.messages[k] = {"role", "content"}

C6_Witness ==
    \E r \in Requests :
        /\ AgentSucceeded(r)
        /\ \E i \in DOMAIN seen[r] : "role" \notin DOMAIN seen[r][i]
        /\ \E i \in DOMAIN seen[r] : "content" \notin DOMAIN seen[r][i]
        /\ Len(response[r].body.messages) >= 2
        /\ response[r].body.messages[1].role # response[r].body.messages[2].role

\* C7: a body that is not JSON, or is JSON but not an object, is answered 500
\* with "Failed to process request: " and the exception text, and agent.run
\* is not called.
C7_ParseFailureIs500 ==
    \A r \in Requests :
        Done(r) /\ ParseFails(body[r])
            => /\ RunCount(r) = 0
               /\ response[r] =
                    ErrorBody(500,
                        IF ~body[r].valid
                        THEN "Failed to process request: Expecting value: line 1 column 1 (char 0)"
                        ELSE "Failed to process request: 'list' object has no attribute 'get'")

C7_Witness ==
    /\ \E r \in Requests : Done(r) /\ ~body[r].valid
    /\ \E r \in Requests : Done(r) /\ body[r].valid /\ body[r].value.t = "list"

\* C8: one call of search_images issues exactly one GET asking for at most 3
\* results; on a status other than 200 it raises an error carrying the status
\* code and the response text without parsing the body; on 200 it returns the
\* link of every item, as many as there are items and in their order, and
\* the empty list when there is no items field.
SearchCallOk(s) ==
    /\ s.called
    /\ s.params.q = s.query
    /\ s.params.num <= 3
    /\ s.resp.status_code # 200
         => /\ s.out.raised
            /\ s.out.jsonCalls = 0
            /\ s.out.exc.msg = "Google API Error: " \o ToString(s.resp.status_code)
                                   \o " - " \o s.resp.text
    /\ s.resp.status_code = 200
         => /\ ~s.out.raised
            /\ IF "items" \in DOMAIN s.resp.json
               THEN /\ Len(s.out.value) = Len(s.resp.json["items"])
                    /\ \A i \in DOMAIN s.out.value :
                         s.out.value[i] = s.resp.json["items"][i].link
               ELSE s.out.value = <<>>

C8_SearchImages ==
    [][getCalls' = getCalls + 1 /\ SearchCallOk(search')]_searchVars

C8_Witness ==
    /\ getCalls = 2
    /\ search.called
    /\ search.resp.status_code = 200
    /\ Len(search.out.value) >= 2
    /\ search.out.value[1] # search.out.value[2]

\* the position of the response in a finished handler's trace
RespondAt(tr) == CHOOSE i \in DOMAIN tr : tr[i].ev = "respond"
Failed(r) == Done(r) /\ response[r].status \in {400, 500}
LoggedBeforeResponse(r) ==
    \E i \in LogsIn(trace[r]) : i < RespondAt(trace[r])

\* C9 as stated: every failure, the 400 included, has a detail message and a
\* console log line printed before the error response.
C9_EveryFailureLogged ==
    \A r \in Requests :
        Failed(r) => response[r].body.detail # "" /\ LoggedBeforeResponse(r)

\* C9 amended: every failure has a detail message; every 500 (agent failure,
\* parse failure) has one log line printed before the error response; the 400
\* for missing content has no log line.
C9_ServerErrorsLogged ==
    \A r \in Requests :
        /\ Failed(r) => response[r].body.detail # ""
        /\ Done(r) /\ response[r].status = 500
             => /\ LoggedBeforeResponse(r)
                /\ Cardinality(LogsIn(trace[r])) = 1
                /\ RespondAt(trace[r]) = Len(trace[r])
        /\ Done(r) /\ response[r].status = 400 => LogsIn(trace[r]) = {}

C9_Witness ==
    /\ \E r \in Requests :
         /\ AgentRaised(r)
         /\ trace[r][2] = PrintEv("Error during agent execution: 429: Too Many Requests")
         /\ trace[r][3] = RespondEv(500)
    /\ \E r \in Requests :
         /\ Done(r) /\ ParseFails(body[r])
         /\ trace[r][1].ev = "print"
         /\ trace[r][2] = RespondEv(500)

\* C10: agent.run is called at most once per request: exactly once, with the
\* content as its task, when content is present and non-empty; not at all when
\* the request is rejected with 400 or fails parsing; and after an agent
\* failure the request ends with the error response and no second call.
C10_NoRetry ==
    \A r \in Requests :
        /\ RunCount(r) <= 1
        /\ ~Done(r) => RunCount(r) = 0
        /\ Done(r) /\ PresentContent(body[r])
             => /\ RunCount(r) = 1
                /\ \A i \in RunsIn(trace[r]) :
                     trace[r][i].task = body[r].value.items["content"]
        /\ Done(r) /\ (response[r].status = 400 \/ ParseFails(body[r]))
             => RunCount(r) = 0
        /\ AgentRaised(r)
             => /\ response[r].status = 500
                /\ \A i \in RunsIn(trace[r]) : \A j \in LogsIn(trace[r]) : i < j

C10_Witness ==
    /\ \E r \in Requests : AgentRaised(r) /\ RunCount(r) = 1
    /\ \E r \in Requests : Done(r) /\ response[r].status = 400 /\ RunCount(r) = 0

====
